---- MODULE Spec2Model ----
(***************************************************************************)
(* LiteEthPacketizer (liteeth/generic/packetizer.py): a synchronous        *)
(* header-insertion framer.  One TLA+ step is one clock tick.  The inputs   *)
(* of the current tick (the upstream word `sink` and the downstream ready   *)
(* `source_ack`) are state variables; the combinational signals of the      *)
(* tick are the operator Comb of the registers and the inputs, and the      *)
(* registers (fsm state, header_reg, counter.value) take their next value   *)
(* on the clock edge.                                                       *)
(***************************************************************************)
EXTENDS Integers, Sequences, FiniteSets, TLC

VARIABLES
    cfg,         \* constructor arguments: dw, header_length, header_type
    state,       \* fsm state: "IDLE", "SEND_HEADER", "COPY"
    header_reg,  \* Signal(header_length*8)
    counter,     \* counter.value
    sink,        \* the upstream word of this tick (stb, sop, eop, data, error, params)
    source_ack,  \* downstream ready of this tick
    sof,         \* history: <<the start-of-frame word seen when Idle was left>>
    consumed,    \* history: the upstream words consumed in Copy for the current frame
    emitted      \* history: the words accepted downstream for the current frame

vars == <<cfg, state, header_reg, counter, sink, source_ack, sof, consumed, emitted>>

------------------------------------------------------------------------------
(* Bounds and value sets *)

\* the longest payload (in words) the upstream produces for one frame
MaxPayload == 2

\* payload data values
DataVals == {170, 187, 204}     \* 0xAA, 0xBB, 0xCC

\* metadata records (one value per header field name); every encoded header
\* stays below 2^31
Metas == { [a |-> 7, b |-> 4660],          \* 0x07, 0x1234
           [a |-> 112, b |-> 48879] }      \* 0x70, 0xBEEF

\* header field names in sorted() order
FieldNames == <<"a", "b">>

Field(by, off, w) == [byte |-> by, offset |-> off, width |-> w]

\* header_type dictionaries
LayoutAB    == [a |-> Field(0, 0, 8), b |-> Field(1, 0, 16)]
LayoutB     == [b |-> Field(0, 0, 16)]
LayoutBA    == [a |-> Field(2, 0, 16), b |-> Field(0, 0, 16)]
LayoutOver  == [a |-> Field(0, 0, 16), b |-> Field(1, 0, 16)]
LayoutGap   == [a |-> Field(0, 0, 8), b |-> Field(2, 0, 8)]
LayoutShort == [a |-> Field(2, 0, 8), b |-> Field(0, 0, 16)]

Config(d, hl, ht) == [dw |-> d, header_length |-> hl, header_type |-> ht]

\* the constructor arguments tried.  The first three are well-formed; the
\* last three are ones the data model calls invalid (overlapping fields, a
\* byte no field covers, header_length*8 not a multiple of dw).  Every one
\* has header_length//(dw//8) >= 2: Counter(max=1) cannot be built, its
\* Signal(max=1) has an empty range.
Configs == { Config(8, 3, LayoutAB),
             Config(8, 2, LayoutB),
             Config(16, 4, LayoutBA),
             Config(8, 3, LayoutOver),
             Config(8, 3, LayoutGap),
             Config(16, 5, LayoutShort) }

------------------------------------------------------------------------------
(* Bit vectors as naturals *)

RECURSIVE Pow2(_)
Pow2(n) == IF n <= 0 THEN 1 ELSE 2 * Pow2(n - 1)

Min(x, y) == IF x <= y THEN x ELSE y

\* bits [lo, hi) of x
Slice(x, lo, hi) == IF hi <= lo THEN 0 ELSE (x \div Pow2(lo)) % Pow2(hi - lo)

\* x with bits [lo, hi) replaced by the low bits of v
SetSlice(x, lo, hi, v) ==
    IF hi <= lo THEN x
    ELSE x - Slice(x, lo, hi) * Pow2(lo) + (v % Pow2(hi - lo)) * Pow2(lo)

\* migen bits_for(n): the width of an unsigned Signal holding 0..n
RECURSIVE bits_for(_)
bits_for(n) == IF n <= 1 THEN 1 ELSE 1 + bits_for(n \div 2)

\* reverse_bytes(signal) for a signal of `width` bits: Cat of its bytes, the
\* most significant byte first (lowest)
RECURSIVE reverse_bytes_from(_, _, _)
reverse_bytes_from(v, width, i) ==
    IF i < 0 THEN 0
    ELSE LET hi == Min((i + 1) * 8, width)
             b  == Slice(v, i * 8, hi)
         IN b + Pow2(hi - i * 8) * reverse_bytes_from(v, width, i - 1)

reverse_bytes(v, width) == reverse_bytes_from(v % Pow2(width), width, ((width + 7) \div 8) - 1)

------------------------------------------------------------------------------
(* _encode_header *)

\* the keys of h_dict in sorted() order
SortedKeys(h_dict) == SelectSeq(FieldNames, LAMBDA k : k \in DOMAIN h_dict)

RECURSIVE encode_fields(_, _, _, _, _)
encode_fields(h_dict, keys, hbits, obj, h) ==
    IF keys = << >> THEN h
    ELSE LET k     == Head(keys)
             v     == h_dict[k]
             start == v.byte * 8 + v.offset
             end   == start + v.width
         IN encode_fields(h_dict, Tail(keys), hbits, obj,
                SetSlice(h, Min(start, hbits), Min(end, hbits),
                         reverse_bytes(obj[k], v.width)))

\* the value of self.header for the metadata on `obj`
encode_header(c, obj) ==
    encode_fields(c.header_type, SortedKeys(c.header_type), c.header_length * 8, obj, 0)

------------------------------------------------------------------------------
(* LiteEthPacketizer *)

\* header_length//(dw//8)
header_words(c) == c.header_length \div (c.dw \div 8)

\* the width of counter.value: Signal(max=header_words)
counter_bits(c) == bits_for(header_words(c) - 1)

\* IdleComb with a plausible slip, one per definition
IdleComb_resetWhenWaiting(c, hr, cnt, snk, ack) ==
    LET start == snk.stb /\ snk.sop
    IN [ sink_ack |-> ~start, counter_reset |-> ~start, counter_ce |-> FALSE,
         source_stb |-> start, source_sop |-> start, source_eop |-> FALSE,
         source_data |-> IF start THEN Slice(encode_header(c, snk), 0, c.dw) ELSE 0,
         source_error |-> FALSE, load |-> start /\ ack, shift |-> FALSE,
         next_state |-> IF start /\ ack THEN "SEND_HEADER" ELSE "IDLE" ]

IdleComb_loadOnStart(c, hr, cnt, snk, ack) ==
    LET start == snk.stb /\ snk.sop
    IN [ sink_ack |-> ~start, counter_reset |-> TRUE, counter_ce |-> FALSE,
         source_stb |-> start, source_sop |-> start, source_eop |-> FALSE,
         source_data |-> IF start THEN Slice(encode_header(c, snk), 0, c.dw) ELSE 0,
         source_error |-> FALSE, load |-> start, shift |-> FALSE,
         next_state |-> IF start /\ ack THEN "SEND_HEADER" ELSE "IDLE" ]

IdleComb_dataFromReg(c, hr, cnt, snk, ack) ==
    LET start == snk.stb /\ snk.sop
    IN [ sink_ack |-> ~start, counter_reset |-> TRUE, counter_ce |-> FALSE,
         source_stb |-> start, source_sop |-> start, source_eop |-> FALSE,
         source_data |-> IF start THEN Slice(hr, 0, c.dw) ELSE 0,
         source_error |-> FALSE, load |-> start /\ ack, shift |-> FALSE,
         next_state |-> IF start /\ ack THEN "SEND_HEADER" ELSE "IDLE" ]

IdleComb_ackGated(c, hr, cnt, snk, ack) ==
    LET start == snk.stb /\ snk.sop
    IN [ sink_ack |-> ~start /\ ack, counter_reset |-> TRUE, counter_ce |-> FALSE,
         source_stb |-> start, source_sop |-> start, source_eop |-> FALSE,
         source_data |-> IF start THEN Slice(encode_header(c, snk), 0, c.dw) ELSE 0,
         source_error |-> FALSE, load |-> start /\ ack, shift |-> FALSE,
         next_state |-> IF start /\ ack THEN "SEND_HEADER" ELSE "IDLE" ]

\* the combinational signals of one tick: fsm.act("IDLE", ...)
IdleComb(c, hr, cnt, snk, ack) ==
    LET start == snk.stb /\ snk.sop
    IN [ sink_ack      |-> ~start,
         counter_reset |-> TRUE,
         counter_ce    |-> FALSE,
         source_stb    |-> start,
         source_sop    |-> start,
         source_eop    |-> FALSE,
         source_data   |-> IF start THEN Slice(encode_header(c, snk), 0, c.dw) ELSE 0,
         source_error  |-> FALSE,
         load          |-> start /\ ack,
         shift         |-> FALSE,
         next_state    |-> IF start /\ ack THEN "SEND_HEADER" ELSE "IDLE" ]

\* SendHeaderComb with a plausible slip, one per definition
SendHeaderComb_peek0(c, hr, cnt, snk, ack) ==
    LET last == cnt = header_words(c) - 2
    IN [ sink_ack |-> FALSE, counter_reset |-> FALSE, counter_ce |-> ack,
         source_stb |-> TRUE, source_sop |-> FALSE, source_eop |-> snk.eop /\ last,
         source_data |-> Slice(hr, 0, c.dw),
         source_error |-> FALSE, load |-> FALSE, shift |-> ack,
         next_state |-> IF ack /\ last THEN "COPY" ELSE "SEND_HEADER" ]

SendHeaderComb_shiftAlways(c, hr, cnt, snk, ack) ==
    LET last == cnt = header_words(c) - 2
    IN [ sink_ack |-> FALSE, counter_reset |-> FALSE, counter_ce |-> ack,
         source_stb |-> TRUE, source_sop |-> FALSE, source_eop |-> snk.eop /\ last,
         source_data |-> Slice(hr, c.dw, 2 * c.dw),
         source_error |-> FALSE, load |-> FALSE, shift |-> TRUE,
         next_state |-> IF ack /\ last THEN "COPY" ELSE "SEND_HEADER" ]

SendHeaderComb_countOnValid(c, hr, cnt, snk, ack) ==
    LET last == cnt = header_words(c) - 2
    IN [ sink_ack |-> FALSE, counter_reset |-> FALSE, counter_ce |-> ack /\ snk.stb,
         source_stb |-> TRUE, source_sop |-> FALSE, source_eop |-> snk.eop /\ last,
         source_data |-> Slice(hr, c.dw, 2 * c.dw),
         source_error |-> FALSE, load |-> FALSE, shift |-> ack /\ snk.stb,
         next_state |-> IF ack /\ last THEN "COPY" ELSE "SEND_HEADER" ]

SendHeaderComb_noEop(c, hr, cnt, snk, ack) ==
    LET last == cnt = header_words(c) - 2
    IN [ sink_ack |-> FALSE, counter_reset |-> FALSE, counter_ce |-> ack,
         source_stb |-> TRUE, source_sop |-> FALSE, source_eop |-> FALSE,
         source_data |-> Slice(hr, c.dw, 2 * c.dw),
         source_error |-> FALSE, load |-> FALSE, shift |-> ack,
         next_state |-> IF ack /\ last THEN "COPY" ELSE "SEND_HEADER" ]

SendHeaderComb_eopAnyWord(c, hr, cnt, snk, ack) ==
    LET last == cnt = header_words(c) - 2
    IN [ sink_ack |-> FALSE, counter_reset |-> FALSE, counter_ce |-> ack,
         source_stb |-> TRUE, source_sop |-> FALSE, source_eop |-> snk.eop,
         source_data |-> Slice(hr, c.dw, 2 * c.dw),
         source_error |-> FALSE, load |-> FALSE, shift |-> ack,
         next_state |-> IF ack /\ last THEN "COPY" ELSE "SEND_HEADER" ]

SendHeaderComb_lateThreshold(c, hr, cnt, snk, ack) ==
    LET last == cnt = header_words(c) - 1
    IN [ sink_ack |-> FALSE, counter_reset |-> FALSE, counter_ce |-> ack,
         source_stb |-> TRUE, source_sop |-> FALSE, source_eop |-> snk.eop /\ last,
         source_data |-> Slice(hr, c.dw, 2 * c.dw),
         source_error |-> FALSE, load |-> FALSE, shift |-> ack,
         next_state |-> IF ack /\ last THEN "COPY" ELSE "SEND_HEADER" ]

\* fsm.act("SEND_HEADER", ...)
SendHeaderComb(c, hr, cnt, snk, ack) ==
    LET last == cnt = header_words(c) - 2
    IN [ sink_ack      |-> FALSE,
         counter_reset |-> FALSE,
         counter_ce    |-> ack,
         source_stb    |-> TRUE,
         source_sop    |-> FALSE,
         source_eop    |-> snk.eop /\ last,
         source_data   |-> Slice(hr, c.dw, 2 * c.dw),
         source_error  |-> FALSE,
         load          |-> FALSE,
         shift         |-> ack,
         next_state    |-> IF ack /\ last THEN "COPY" ELSE "SEND_HEADER" ]

\* CopyComb leaving the frame on a word flagged as an error
CopyComb_errorAborts(c, hr, cnt, snk, ack) ==
    [ sink_ack |-> snk.stb /\ ack, counter_reset |-> FALSE, counter_ce |-> FALSE,
      source_stb |-> snk.stb, source_sop |-> FALSE, source_eop |-> snk.eop,
      source_data |-> snk.data, source_error |-> snk.error,
      load |-> FALSE, shift |-> FALSE,
      next_state |-> IF snk.stb /\ ack /\ (snk.eop \/ snk.error) THEN "IDLE" ELSE "COPY" ]

\* CopyComb consuming the upstream word whether or not downstream accepts
CopyComb_ackAlways(c, hr, cnt, snk, ack) ==
    [ sink_ack |-> snk.stb, counter_reset |-> FALSE, counter_ce |-> FALSE,
      source_stb |-> snk.stb, source_sop |-> FALSE, source_eop |-> snk.eop,
      source_data |-> snk.data, source_error |-> snk.error,
      load |-> FALSE, shift |-> FALSE,
      next_state |-> IF snk.stb /\ ack /\ snk.eop THEN "IDLE" ELSE "COPY" ]

\* CopyComb passing the upstream start flag through
CopyComb_sopThrough(c, hr, cnt, snk, ack) ==
    [ sink_ack |-> snk.stb /\ ack, counter_reset |-> FALSE, counter_ce |-> FALSE,
      source_stb |-> snk.stb, source_sop |-> snk.sop, source_eop |-> snk.eop,
      source_data |-> snk.data, source_error |-> snk.error,
      load |-> FALSE, shift |-> FALSE,
      next_state |-> IF snk.stb /\ ack /\ snk.eop THEN "IDLE" ELSE "COPY" ]

\* fsm.act("COPY", ...)
CopyComb(c, hr, cnt, snk, ack) ==
    [ sink_ack      |-> snk.stb /\ ack,
      counter_reset |-> FALSE,
      counter_ce    |-> FALSE,
      source_stb    |-> snk.stb,
      source_sop    |-> FALSE,
      source_eop    |-> snk.eop,
      source_data   |-> snk.data,
      source_error  |-> snk.error,
      load          |-> FALSE,
      shift         |-> FALSE,
      next_state    |-> IF snk.stb /\ ack /\ snk.eop THEN "IDLE" ELSE "COPY" ]

Comb(c, st, hr, cnt, snk, ack) ==
    CASE st = "IDLE"        -> IdleComb(c, hr, cnt, snk, ack)
      [] st = "SEND_HEADER" -> SendHeaderComb(c, hr, cnt, snk, ack)
      [] st = "COPY"        -> CopyComb(c, hr, cnt, snk, ack)

\* header_reg_next without the load
header_reg_next_noLoad(c, hr, snk, o) ==
    IF o.shift THEN Slice(hr, c.dw, c.header_length * 8) ELSE hr

\* header_reg_next loading only into an empty register
header_reg_next_keepStale(c, hr, snk, o) ==
    IF o.load THEN (IF hr = 0 THEN encode_header(c, snk) ELSE hr)
    ELSE IF o.shift THEN Slice(hr, c.dw, c.header_length * 8)
    ELSE hr

\* header_reg_next shifting by one byte whatever dw is
header_reg_next_shiftByte(c, hr, snk, o) ==
    IF o.load THEN encode_header(c, snk)
    ELSE IF o.shift THEN Slice(hr, 8, c.header_length * 8)
    ELSE hr

\* self.sync: header_reg on the clock edge
header_reg_next(c, hr, snk, o) ==
    IF o.load THEN encode_header(c, snk)
    ELSE IF o.shift THEN Slice(hr, c.dw, c.header_length * 8)
    ELSE hr

\* counter_next without the reset
counter_next_noReset(c, cnt, o) ==
    IF o.counter_ce THEN (cnt + 1) % Pow2(counter_bits(c)) ELSE cnt

\* Counter (InsertReset, InsertCE): counter.value on the clock edge
counter_next(c, cnt, o) ==
    IF o.counter_reset THEN 0
    ELSE IF o.counter_ce THEN (cnt + 1) % Pow2(counter_bits(c))
    ELSE cnt

------------------------------------------------------------------------------
(* The environment and the history of the current frame *)

SinkWords ==
    { [stb |-> s, sop |-> so, eop |-> eo, data |-> d, error |-> er, a |-> m.a, b |-> m.b] :
        s \in BOOLEAN, so \in BOOLEAN, eo \in BOOLEAN, d \in DataVals,
        er \in BOOLEAN, m \in Metas }

\* the upstream words that may follow when k words of the frame are consumed
NextWords(k) == { w \in SinkWords : (k + 1 >= MaxPayload) => w.eop }

\* the signals of the current tick
Out == Comb(cfg, state, header_reg, counter, sink, source_ack)

\* this tick transfers a word downstream / consumes the upstream word
SourceTransfer == Out.source_stb /\ source_ack
SinkTransfer   == sink.stb /\ Out.sink_ack

EmittedWord == [ data |-> Out.source_data, sop |-> Out.source_sop,
                 eop |-> Out.source_eop, error |-> Out.source_error, fsm |-> state ]

ConsumedWord == [ data |-> sink.data, eop |-> sink.eop, error |-> sink.error ]

\* upstream: a word is held until it is consumed (stb may be deasserted in
\* between); the word after a consumed one is arbitrary
Upstream ==
    /\ IF SinkTransfer
       THEN sink' \in NextWords(IF state = "COPY" /\ ~sink.eop THEN Len(consumed) + 1 ELSE 0)
       ELSE \E s \in BOOLEAN : sink' = [sink EXCEPT !.stb = s]
    /\ source_ack' \in BOOLEAN

\* this tick forwards the last word of the frame
FrameEnds == state = "COPY" /\ SinkTransfer /\ sink.eop

\* the history of a frame starts when Idle is left and is dropped on the tick
\* after its last word
History ==
    /\ sof' = IF state = "IDLE" /\ SourceTransfer THEN <<sink>>
              ELSE IF FrameEnds THEN << >>
              ELSE sof
    /\ consumed' = IF FrameEnds \/ (state = "IDLE" /\ SourceTransfer) THEN << >>
                   ELSE IF state = "COPY" /\ SinkTransfer THEN Append(consumed, ConsumedWord)
                   ELSE consumed
    /\ emitted' = IF FrameEnds THEN << >>
                  ELSE IF ~SourceTransfer THEN emitted
                  ELSE IF state = "IDLE" THEN <<EmittedWord>>
                  ELSE Append(emitted, EmittedWord)

\* one clock tick
Tick ==
    /\ state' = Out.next_state
    /\ header_reg' = header_reg_next(cfg, header_reg, sink, Out)
    /\ counter' = counter_next(cfg, counter, Out)
    /\ cfg' = cfg
    /\ History
    /\ Upstream

Idle       == state = "IDLE" /\ Tick
SendHeader == state = "SEND_HEADER" /\ Tick
Copy       == state = "COPY" /\ Tick

Init ==
    /\ cfg \in Configs
    /\ state = "IDLE"
    /\ header_reg = 0
    /\ counter = 0
    /\ sink \in NextWords(0)
    /\ source_ack \in BOOLEAN
    /\ sof = << >>
    /\ consumed = << >>
    /\ emitted = << >>

Next == Idle \/ SendHeader \/ Copy

Spec == Init /\ [][Next]_vars

\* the same framer with an upstream whose words differ only in stb, sop and
\* eop (termination does not depend on data, error or metadata values)
LiveWords(k) == { w \in NextWords(k) : w.data = 170 /\ ~w.error /\ w.a = 7 /\ w.b = 4660 }

UpstreamLive ==
    /\ IF SinkTransfer
       THEN sink' \in LiveWords(IF state = "COPY" /\ ~sink.eop THEN Len(consumed) + 1 ELSE 0)
       ELSE \E s \in BOOLEAN : sink' = [sink EXCEPT !.stb = s]
    /\ source_ack' \in BOOLEAN

TickLive ==
    /\ state' = Out.next_state
    /\ header_reg' = header_reg_next(cfg, header_reg, sink, Out)
    /\ counter' = counter_next(cfg, counter, Out)
    /\ cfg' = cfg
    /\ History
    /\ UpstreamLive

IdleLive       == state = "IDLE" /\ TickLive
SendHeaderLive == state = "SEND_HEADER" /\ TickLive
CopyLive       == state = "COPY" /\ TickLive

InitLive == Init /\ sink \in LiveWords(0)

NextLive == IdleLive \/ SendHeaderLive \/ CopyLive

\* the clock keeps ticking, and again and again a tick comes on which
\* downstream is ready and upstream presents a valid word
Ready == NextLive /\ source_ack' /\ sink'.stb
SpecLive == InitLive /\ [][NextLive]_vars /\ WF_vars(NextLive) /\ WF_vars(Ready)

\* an upstream that does not hold its parameters: while a word is not
\* consumed its header parameters (and stb) may change from tick to tick
UpstreamFree ==
    /\ IF SinkTransfer
       THEN sink' \in NextWords(IF state = "COPY" /\ ~sink.eop THEN Len(consumed) + 1 ELSE 0)
       ELSE \E s \in BOOLEAN, m \in Metas :
                sink' = [sink EXCEPT !.stb = s, !.a = m.a, !.b = m.b]
    /\ source_ack' \in BOOLEAN

TickFree ==
    /\ state' = Out.next_state
    /\ header_reg' = header_reg_next(cfg, header_reg, sink, Out)
    /\ counter' = counter_next(cfg, counter, Out)
    /\ cfg' = cfg
    /\ History
    /\ UpstreamFree

IdleFree       == state = "IDLE" /\ TickFree
SendHeaderFree == state = "SEND_HEADER" /\ TickFree
CopyFree       == state = "COPY" /\ TickFree

NextFree == IdleFree \/ SendHeaderFree \/ CopyFree

SpecFree == Init /\ [][NextFree]_vars

------------------------------------------------------------------------------
(* What the data model calls a valid configuration *)

FieldBits(f) == { i \in 0 .. 63 : f.byte * 8 + f.offset <= i /\ i < f.byte * 8 + f.offset + f.width }

ValidLayout(c) ==
    LET h == c.header_type
    IN /\ \A j, k \in DOMAIN h : j # k => FieldBits(h[j]) \cap FieldBits(h[k]) = {}
       /\ UNION { FieldBits(h[k]) : k \in DOMAIN h } = 0 .. (c.header_length * 8 - 1)

ValidConfig(c) ==
    /\ c.dw % 8 = 0
    /\ (c.header_length * 8) % c.dw = 0
    /\ (c.header_length * 8) \div c.dw >= 2
    /\ ValidLayout(c)

\* the valid ones among the configurations tried
ValidConfigs == { c \in Configs : ValidConfig(c) }
Valid == cfg \in ValidConfigs

------------------------------------------------------------------------------
(* Views of the history *)

\* word i (from 0) of the header encoded from the metadata on obj
HeaderWord(c, obj, i) == Slice(encode_header(c, obj), i * c.dw, (i + 1) * c.dw)

\* the words accepted downstream for the frame, this tick's included
EmittedNow == IF SourceTransfer /\ state # "IDLE" THEN Append(emitted, EmittedWord) ELSE emitted

\* the upstream words consumed for the frame, this tick's included
ConsumedNow == IF SinkTransfer /\ state = "COPY" THEN Append(consumed, ConsumedWord) ELSE consumed

DataOf(ws) == [i \in 1 .. Len(ws) |-> ws[i].data]

\* the header words of the frame followed by the data of its payload words
HeaderThenPayload ==
    [i \in 1 .. header_words(cfg) |-> HeaderWord(cfg, sof[1], i - 1)] \o DataOf(ConsumedNow)

\* a word as downstream sees it
Wire(w) == [data |-> w.data, sop |-> w.sop, eop |-> w.eop, error |-> w.error]
WireOf(ws) == [i \in 1 .. Len(ws) |-> Wire(ws[i])]

\* the run of the framer on a frame when downstream is always ready and
\* upstream always valid: the words it emits until it is back in Idle
RECURSIVE RefRun(_, _, _, _, _, _, _)
RefRun(c, st, hr, cnt, words, i, out) ==
    IF i > Len(words) THEN out
    ELSE LET snk  == words[i]
             o    == Comb(c, st, hr, cnt, snk, TRUE)
             w    == [data |-> o.source_data, sop |-> o.source_sop,
                      eop |-> o.source_eop, error |-> o.source_error]
             out2 == IF o.source_stb THEN Append(out, w) ELSE out
             i2   == IF o.sink_ack THEN i + 1 ELSE i
         IN IF st # "IDLE" /\ o.next_state = "IDLE" THEN out2
            ELSE RefRun(c, o.next_state, header_reg_next(c, hr, snk, o),
                        counter_next(c, cnt, o), words, i2, out2)

\* the frame consumed so far as upstream words: every word valid, the first
\* marked start, all carrying the metadata of the start-of-frame word
FrameWords ==
    [i \in 1 .. Len(ConsumedNow) |->
        [stb |-> TRUE, sop |-> (i = 1), eop |-> ConsumedNow[i].eop,
         data |-> ConsumedNow[i].data, error |-> ConsumedNow[i].error,
         a |-> sof[1].a, b |-> sof[1].b]]

\* the configuration and header of the worked examples: W = 8, three header
\* words, header bytes 0x07 0x12 0x34
ExampleConfig == cfg = Config(8, 3, LayoutAB)
ExampleHeader == sof # << >> /\ encode_header(cfg, sof[1]) = 7 + 18 * 256 + 52 * 65536

------------------------------------------------------------------------------
(* Claims *)

\* C1: when a frame ends, the data of the words accepted downstream since Idle
\* was left is the header_words words of the encoded header, word 0 first,
\* followed by the data of every payload word consumed, in order, each once;
\* the first payload word is the start-of-frame word that was pending.
C1_FramingData ==
    (Valid /\ FrameEnds) =>
        /\ DataOf(EmittedNow) = HeaderThenPayload
        /\ ConsumedNow[1].data = sof[1].data

C1_Witness ==
    /\ Valid /\ FrameEnds
    /\ header_words(cfg) = 3
    /\ Len(ConsumedNow) = MaxPayload
    /\ ConsumedNow[1].data # ConsumedNow[2].data

\* C2 (as claimed): when a frame ends, start is true on the first emitted word
\* and on no other, and end is true on the last emitted word and on no other.
C2_StartEndOnce ==
    (Valid /\ FrameEnds) =>
        \A i \in 1 .. Len(EmittedNow) :
            /\ EmittedNow[i].sop = (i = 1)
            /\ EmittedNow[i].eop = (i = Len(EmittedNow))

\* C3: when a frame ends, the words accepted downstream (data, start, end,
\* error) are those of the run of the same frame with downstream always ready,
\* whatever the ticks on which downstream was not ready.
C3_BackpressureInvariant ==
    (Valid /\ FrameEnds) =>
        WireOf(EmittedNow) = RefRun(cfg, "IDLE", 0, 0, FrameWords, 1, << >>)

C3_Witness ==
    /\ Valid /\ FrameEnds
    /\ Len(ConsumedNow) = MaxPayload
    /\ header_words(cfg) = 3

\* C4: in SendHeader the shift register and the counter change only on a tick
\* in which downstream accepts the header word, whether or not upstream is
\* valid; an accepted word shifts by one word and counts one; the words
\* emitted so far are the first counter+1 header words.
C4_ShiftOnlyOnAccept ==
    [][(state = "SEND_HEADER" /\ Valid) =>
         /\ ~source_ack => (header_reg' = header_reg /\ counter' = counter
                             /\ state' = state /\ emitted' = emitted)
         /\ source_ack => (header_reg' = header_reg \div Pow2(cfg.dw)
                            /\ counter' = counter + 1
                            /\ Len(emitted') = Len(emitted) + 1)
         /\ Len(emitted) = counter + 1
         /\ \A i \in 1 .. Len(emitted) : emitted[i].data = HeaderWord(cfg, sof[1], i - 1)
         /\ Out.source_data = HeaderWord(cfg, sof[1], counter + 1)]_vars

C4_Witness ==
    /\ Valid /\ state = "SEND_HEADER"
    /\ ~sink.stb /\ source_ack /\ counter = 1

\* C5: W = 8, header 0x07 0x12 0x34, payload 0xAA (start) then 0xBB (end): five
\* words are emitted, (0x07, start), 0x12, 0x34, 0xAA, (0xBB, end), in the
\* states Idle, SendHeader, SendHeader, Copy, Copy, and the next state is Idle.
C5_TwoWordPayload ==
    (/\ ExampleConfig /\ ExampleHeader /\ FrameEnds
     /\ DataOf(ConsumedNow) = <<170, 187>>) =>
        /\ [i \in 1 .. Len(EmittedNow) |->
              <<EmittedNow[i].data, EmittedNow[i].sop, EmittedNow[i].eop, EmittedNow[i].fsm>>]
           = << <<7, TRUE, FALSE, "IDLE">>,
                <<18, FALSE, FALSE, "SEND_HEADER">>,
                <<52, FALSE, FALSE, "SEND_HEADER">>,
                <<170, FALSE, FALSE, "COPY">>,
                <<187, FALSE, TRUE, "COPY">> >>
        /\ Out.next_state = "IDLE"

C5_Witness ==
    /\ ExampleConfig /\ ExampleHeader /\ FrameEnds
    /\ DataOf(ConsumedNow) = <<170, 187>>

\* the single-word payload 0xCC, marked start and end, is pending
SingleWordPending ==
    /\ ExampleConfig /\ ExampleHeader
    /\ sof[1].data = 204 /\ sof[1].sop /\ sof[1].eop
    /\ consumed = << >>

\* C6: W = 8, header 0x07 0x12 0x34, payload the single word 0xCC marked start
\* and end, pending during SendHeader: the third word, presented with counter
\* 1, is 0x34 with end true, and on its acceptance the state becomes Copy.
C6_SingleWordEnd ==
    [][(SingleWordPending /\ state = "SEND_HEADER" /\ counter = 1) =>
         /\ Len(emitted) = 2
         /\ sink.data = 204 /\ sink.eop
         /\ Out.source_data = 52 /\ Out.source_eop /\ ~Out.source_sop
         /\ source_ack => (state' = "COPY" /\ emitted'[3].data = 52 /\ emitted'[3].eop
                            /\ consumed' = << >>)
         /\ ~source_ack => state' = "SEND_HEADER"]_vars

C6_Witness ==
    SingleWordPending /\ state = "COPY" /\ Len(emitted) = 3 /\ emitted[3].eop

\* C7 (as claimed): once a header word has been emitted with end true, no
\* further word is emitted for the frame.
C7_NothingAfterHeaderEnd ==
    Valid =>
        \A i \in 1 .. Len(EmittedNow) :
            (EmittedNow[i].fsm = "SEND_HEADER" /\ EmittedNow[i].eop) => i = Len(EmittedNow)

\* C8 (as claimed): a framer built with an invalid configuration never accepts
\* or emits a word.
C8_InvalidNeverRuns ==
    ~Valid => (~SourceTransfer /\ ~SinkTransfer /\ emitted = << >>)

\* the signals and the next registers of this tick if the upstream error flag
\* were the opposite
FlippedSink == [sink EXCEPT !.error = ~sink.error]
FlippedOut  == Comb(cfg, state, header_reg, counter, FlippedSink, source_ack)

\* C9: a word emitted in Copy carries the upstream word's error flag, and the
\* flag decides nothing else: with the opposite flag the tick has the same
\* next state, shift register, counter, handshakes, data, start and end; the
\* error flags of the payload words emitted are those of the words consumed.
C9_ErrorOpaque ==
    /\ state = "COPY" => Out.source_error = sink.error
    /\ [FlippedOut EXCEPT !.source_error = Out.source_error] = Out
    /\ header_reg_next(cfg, header_reg, FlippedSink, FlippedOut)
         = header_reg_next(cfg, header_reg, sink, Out)
    /\ counter_next(cfg, counter, FlippedOut) = counter_next(cfg, counter, Out)
    /\ \A i \in 1 .. Len(EmittedNow) :
         EmittedNow[i].fsm = "COPY" =>
            /\ i > header_words(cfg)
            /\ EmittedNow[i].error = ConsumedNow[i - header_words(cfg)].error

C9_Witness ==
    /\ FrameEnds /\ Len(ConsumedNow) = MaxPayload
    /\ ConsumedNow[1].error /\ ~ConsumedNow[2].error

\* C10: a word presented in SendHeader has start false and end equal to
\* (upstream end and counter = header_words - 2), the upstream word being the
\* pending start-of-frame word; so of the header words emitted only the last
\* can carry end, and it carries the pending word's end flag.
C10_HeaderEnd ==
    /\ state = "SEND_HEADER" =>
         /\ ~Out.source_sop
         /\ Out.source_eop = (sink.eop /\ counter = header_words(cfg) - 2)
         /\ sink.eop = sof[1].eop
         /\ consumed = << >>
    /\ \A i \in 1 .. Len(EmittedNow) :
         EmittedNow[i].fsm = "SEND_HEADER" =>
            /\ ~EmittedNow[i].sop
            /\ EmittedNow[i].eop = (sof[1].eop /\ i = header_words(cfg))

C10_Witness ==
    /\ state = "SEND_HEADER" /\ counter = 0 /\ header_words(cfg) = 3
    /\ sink.eop /\ source_ack

\* C11 (as claimed): for a valid configuration the counter is in
\* [0, header_words-2] in every reachable state.
C11_CounterInClaimedRange ==
    Valid => (0 <= counter /\ counter <= header_words(cfg) - 2)

\* C11 (amended): for a valid configuration the counter is in
\* [0, header_words-1] in every reachable state, and in [0, header_words-2]
\* while the state is SendHeader.
C11_CounterRange ==
    Valid =>
        /\ 0 <= counter /\ counter <= header_words(cfg) - 1
        /\ state = "SEND_HEADER" => counter <= header_words(cfg) - 2

C11_Witness ==
    Valid /\ state = "COPY" /\ counter = header_words(cfg) - 1 /\ header_words(cfg) = 3

\* C12: load is asserted exactly on the tick that takes Idle to SendHeader;
\* SendHeader is entered only from Idle, and on entry the counter is 0 and
\* the shift register is the header encoded from the metadata of that tick,
\* also when the frame starts on the tick right after the previous frame's
\* last Copy word.
C12_LoadOncePerFrame ==
    [][/\ Out.load <=> (state = "IDLE" /\ state' = "SEND_HEADER")
       /\ Out.load <=> (state = "IDLE" /\ SourceTransfer)
       /\ (state # "SEND_HEADER" /\ state' = "SEND_HEADER") =>
             /\ state = "IDLE"
             /\ counter' = 0
             /\ header_reg' = encode_header(cfg, sink)
             /\ sof' = <<sink>>
       /\ (state = "SEND_HEADER" /\ state' = "SEND_HEADER") =>
             header_reg' \in {header_reg, header_reg \div Pow2(cfg.dw)}]_vars

C12_Witness ==
    /\ Valid /\ state = "IDLE" /\ SourceTransfer
    /\ counter = header_words(cfg) - 1
    /\ header_reg # 0

\* C13 (as claimed): an upstream word is consumed only while the state is
\* Copy and only on a tick in which downstream accepts the forwarded word.
C13_ConsumedOnlyInCopy ==
    (Valid /\ SinkTransfer) => (state = "COPY" /\ SourceTransfer)

\* C13 (amended): an upstream word is consumed either in Copy, on a tick in
\* which downstream accepts it as the forwarded word, or in Idle when it is
\* not marked start (it is then discarded); upstream ready is never asserted
\* in SendHeader, nor in Idle while a start-of-frame word is pending.
C13_ConsumedInCopyOrDiscarded ==
    /\ SinkTransfer =>
          \/ state = "COPY" /\ SourceTransfer /\ Out.source_data = sink.data
          \/ state = "IDLE" /\ ~sink.sop /\ ~Out.source_stb
    /\ state = "SEND_HEADER" => ~Out.sink_ack
    /\ (state = "IDLE" /\ sink.stb /\ sink.sop) => ~Out.sink_ack
    /\ (state = "COPY" /\ ~source_ack) => ~Out.sink_ack

C13_Witness ==
    Valid /\ state = "COPY" /\ SinkTransfer /\ ~sink.eop

\* C14: in Copy the downstream word is the upstream word with start forced
\* false; on an accepted transfer the upstream word is consumed and the next
\* state is Idle if the word was marked end and Copy otherwise; without an
\* accepted transfer the state stays Copy and nothing is consumed.
C14_CopyVerbatim ==
    [][state = "COPY" =>
         /\ Out.source_stb = sink.stb
         /\ Out.source_data = sink.data
         /\ Out.source_eop = sink.eop
         /\ Out.source_error = sink.error
         /\ ~Out.source_sop
         /\ SourceTransfer =>
               /\ SinkTransfer
               /\ state' = (IF sink.eop THEN "IDLE" ELSE "COPY")
               /\ ~sink.eop => consumed' = Append(consumed, ConsumedWord)
         /\ ~SourceTransfer =>
               /\ ~SinkTransfer
               /\ state' = "COPY"
               /\ consumed' = consumed /\ emitted' = emitted
               /\ [sink' EXCEPT !.stb = sink.stb] = sink
         /\ header_reg' = header_reg /\ counter' = counter]_vars

C14_Witness ==
    Valid /\ state = "COPY" /\ sink.sop /\ SourceTransfer /\ ~sink.eop

\* C15 (as claimed): on a tick in which downstream is not ready, in any state,
\* the state, the shift register and the counter are unchanged and no
\* upstream word is consumed.
C15_FrozenWhenNotReady ==
    [][(Valid /\ ~source_ack) =>
         /\ state' = state /\ header_reg' = header_reg /\ counter' = counter
         /\ ~SinkTransfer]_vars

\* C15 (amended): on a tick in which downstream is not ready the state and
\* the shift register are unchanged and no word is emitted; in SendHeader and
\* Copy the counter is unchanged and no upstream word is consumed; in Idle the
\* counter is reset to 0 and a valid upstream word not marked start is still
\* consumed.
C15_FrozenExceptIdleDiscard ==
    [][(Valid /\ ~source_ack) =>
         /\ state' = state /\ header_reg' = header_reg
         /\ ~SourceTransfer
         /\ state # "IDLE" =>
               /\ counter' = counter /\ ~SinkTransfer
               /\ emitted' = emitted /\ consumed' = consumed
         /\ state = "IDLE" =>
               /\ counter' = 0
               /\ SinkTransfer <=> (sink.stb /\ ~sink.sop)]_vars

C15_Witness ==
    Valid /\ ~source_ack /\ state = "IDLE" /\ sink.stb /\ sink.sop /\ header_reg # 0

\* the start-of-frame word is presented in Idle and not accepted, and
\* upstream still presents a start-of-frame word on the next tick
IdleWordRefused == state = "IDLE" /\ sink.stb /\ sink.sop /\ ~source_ack
                   /\ sink'.stb /\ sink'.sop

\* C16 (as claimed): the first header word presented in Idle and not accepted
\* is presented again on the next tick with the same data, even if the
\* upstream metadata changes in between.
C16_IdleWordHeld ==
    [][(Valid /\ IdleWordRefused) =>
         /\ state' = "IDLE"
         /\ Out'.source_stb /\ Out'.source_sop /\ ~Out'.source_eop
         /\ Out'.source_data = Out.source_data]_vars

\* C16 (amended): the first header word presented in Idle and not accepted is
\* presented again on the next tick, start true and end false, with data
\* derived again from the metadata of that tick: the data is the same when
\* upstream holds its metadata and follows the metadata when it does not.
C16_IdleWordRederived ==
    [][(Valid /\ IdleWordRefused) =>
         /\ state' = "IDLE" /\ header_reg' = header_reg
         /\ Out.source_stb /\ Out.source_sop /\ ~Out.source_eop
         /\ Out.source_data = HeaderWord(cfg, sink, 0)
         /\ Out'.source_stb /\ Out'.source_sop /\ ~Out'.source_eop
         /\ Out'.source_data = HeaderWord(cfg, sink', 0)
         /\ (sink'.a = sink.a /\ sink'.b = sink.b) => Out'.source_data = Out.source_data]_vars

C16_Witness ==
    /\ Valid /\ state = "IDLE" /\ sink.stb /\ sink.sop /\ ~source_ack
    /\ header_reg # 0
    /\ HeaderWord(cfg, sink, header_words(cfg) - 1) # header_reg

\* C17: the first header word of a frame is word 0 of the header encoded from
\* the metadata of the tick on which Idle is left, whatever an earlier frame
\* left in the shift register, and every later header word of the frame is a
\* word of that same header, whatever the upstream metadata becomes after
\* that tick.
C17_HeaderFresh ==
    Valid =>
        /\ (state = "IDLE" /\ SourceTransfer) =>
              EmittedWord.data = HeaderWord(cfg, sink, 0)
        /\ state # "IDLE" =>
              \A i \in 1 .. Min(Len(EmittedNow), header_words(cfg)) :
                  EmittedNow[i].data = HeaderWord(cfg, sof[1], i - 1)
        /\ state = "SEND_HEADER" =>
              header_reg = encode_header(cfg, sof[1]) \div Pow2(counter * cfg.dw)

C17_Witness ==
    /\ Valid /\ state = "SEND_HEADER" /\ source_ack
    /\ counter = header_words(cfg) - 2
    /\ sink.a # sof[1].a
    /\ HeaderWord(cfg, sink, counter + 1) # HeaderWord(cfg, sof[1], counter + 1)

\* C18: in SendHeader with counter c the shift register is the loaded header
\* shifted down by c words with zeros above, so the presented word is header
\* word c+1; an accepted header word shifts the register by exactly one
\* word and adds exactly 1 to the counter.
C18_ShiftedHeader ==
    [][(Valid /\ state = "SEND_HEADER") =>
         LET H == encode_header(cfg, sof[1])
         IN /\ header_reg = H \div Pow2(counter * cfg.dw)
            /\ counter > 0 => header_reg < Pow2(cfg.header_length * 8 - counter * cfg.dw)
            /\ Out.source_data = Slice(H, (counter + 1) * cfg.dw, (counter + 2) * cfg.dw)
            /\ source_ack =>
                  /\ header_reg' = H \div Pow2((counter + 1) * cfg.dw)
                  /\ header_reg' * Pow2(cfg.dw) + Slice(header_reg, 0, cfg.dw) = header_reg
                  /\ counter' = counter + 1]_vars

C18_Witness ==
    /\ Valid /\ state = "SEND_HEADER" /\ counter = 1 /\ source_ack
    /\ header_reg # 0

\* C19: for a valid configuration, when the clock keeps ticking and ticks with
\* downstream ready and upstream valid keep coming, every frame that leaves
\* Idle returns to Idle; SendHeader is left after exactly header_words - 1
\* accepted words, header_words words of the frame having been emitted.
C19_FrameTerminates ==
    /\ (Valid /\ state # "IDLE") ~> (state = "IDLE")
    /\ [][(Valid /\ state = "SEND_HEADER" /\ state' # "SEND_HEADER") =>
            /\ state' = "COPY"
            /\ Len(emitted') = header_words(cfg)
            /\ \A i \in 2 .. Len(emitted') : emitted'[i].fsm = "SEND_HEADER"]_vars

C19_Witness ==
    /\ Valid /\ state = "COPY" /\ header_words(cfg) = 3
    /\ FrameEnds /\ Len(ConsumedNow) = MaxPayload

\* C20: in Idle a valid upstream word not marked start is accepted and
\* discarded, whether or not downstream is ready: downstream valid stays
\* deasserted, nothing is emitted, the state stays Idle and the shift
\* register is unchanged.
C20_IdleDiscard ==
    [][(state = "IDLE" /\ sink.stb /\ ~sink.sop) =>
         /\ Out.sink_ack /\ SinkTransfer
         /\ ~Out.source_stb
         /\ state' = "IDLE"
         /\ header_reg' = header_reg
         /\ emitted' = emitted /\ emitted = << >> /\ consumed' = consumed]_vars

C20_Witness ==
    /\ state = "IDLE" /\ sink.stb /\ ~sink.sop /\ ~source_ack
    /\ header_reg # 0

====
